---- MODULE Spec2Model ----
(***************************************************************************)
(* Model of Wwise_IDs.h: the generated table of named AkUniqueID constants *)
(* (namespace AK) and the only thing a consumer does with it, reading a    *)
(* constant.  Every declaration                                            *)
(*     static const AkUniqueID <leaf> = <decimal literal>U;                *)
(* is an entry [path, leaf, lit]: path is the chain of namespaces below AK *)
(* that encloses it, leaf the declared identifier, lit the decimal digits  *)
(* of the initialiser as written.                                          *)
(*                                                                         *)
(* TLC's integers are 32-bit signed, so an AkUniqueID (unsigned 32-bit) is *)
(* kept as its two 16-bit halves <<hi, lo>>, and the initialiser is        *)
(* converted digit by digit with the reduction modulo 2^32 made explicit.  *)
(***************************************************************************)
EXTENDS Integers, Sequences, FiniteSets, TLC

\* Number of consumer threads reading the constants.
NumThreads == 2

\* Width of AkUniqueID (AkUInt32).
AkUInt32Bits == 32

Half == 2 ^ (AkUInt32Bits \div 2)

Threads == 1..NumThreads

(***************************************************************************)
(* The declarations, namespace by namespace, in file order.                *)
(***************************************************************************)
EVENTS ==
    << [path |-> <<"EVENTS">>, leaf |-> "PAUSE_DOORKNOCK", lit |-> <<1, 9, 0, 0, 9, 1, 9, 7, 1, 6>>],
       [path |-> <<"EVENTS">>, leaf |-> "PLAY_CALIBRATION", lit |-> <<9, 0, 3, 5, 4, 8, 6>>],
       [path |-> <<"EVENTS">>, leaf |-> "PLAY_DOOR_OPEN", lit |-> <<1, 6, 6, 0, 0, 0, 8, 9, 2, 9>>],
       [path |-> <<"EVENTS">>, leaf |-> "PLAY_DOORKNOCK", lit |-> <<5, 4, 3, 2, 2, 3, 1, 7, 8>>],
       [path |-> <<"EVENTS">>, leaf |-> "PLAY_E_FOOTSTEPS_WETDIRT", lit |-> <<3, 9, 5, 3, 1, 1, 7, 0, 8, 9>>],
       [path |-> <<"EVENTS">>, leaf |-> "PLAY_ENEMY_DETECT", lit |-> <<6, 4, 3, 5, 7, 6, 7, 9, 2>>],
       [path |-> <<"EVENTS">>, leaf |-> "PLAY_ENEMY_ENTRY", lit |-> <<1, 9, 2, 5, 5, 6, 3, 5, 5>>],
       [path |-> <<"EVENTS">>, leaf |-> "PLAY_ENEMYBREATH", lit |-> <<1, 7, 3, 8, 2, 4, 9, 2, 3, 6>>],
       [path |-> <<"EVENTS">>, leaf |-> "PLAY_LEVER", lit |-> <<3, 1, 9, 6, 5, 0, 0, 9, 7, 8>>],
       [path |-> <<"EVENTS">>, leaf |-> "PLAY_MUSIC", lit |-> <<2, 9, 3, 2, 0, 4, 0, 6, 7, 1>>],
       [path |-> <<"EVENTS">>, leaf |-> "PLAY_OUTRO", lit |-> <<4, 3, 1, 0, 1, 4, 1, 9, 9>>],
       [path |-> <<"EVENTS">>, leaf |-> "PLAY_P_FOOTSTEPS", lit |-> <<1, 8, 9, 6, 1, 1, 4, 9, 1, 0>>] >>

STATES ==
    << [path |-> <<"STATES", "AFFECTED_STATES">>, leaf |-> "GROUP", lit |-> <<2, 7, 1, 9, 0, 3, 9, 9, 7, 4>>],
       [path |-> <<"STATES", "AFFECTED_STATES", "STATE">>, leaf |-> "EXCITE", lit |-> <<2, 2, 8, 6, 7, 7, 8, 6, 3, 5>>],
       [path |-> <<"STATES", "AFFECTED_STATES", "STATE">>, leaf |-> "MODERATE", lit |-> <<1, 7, 4, 7, 8, 4, 2, 2, 3, 8>>],
       [path |-> <<"STATES", "AFFECTED_STATES", "STATE">>, leaf |-> "NONE", lit |-> <<7, 4, 8, 8, 9, 5, 1, 9, 5>>],
       [path |-> <<"STATES", "AFFECTED_STATES", "STATE">>, leaf |-> "RELAX", lit |-> <<3, 5, 5, 1, 0, 8, 0, 4, 2, 1>>] >>

SWITCHES ==
    << [path |-> <<"SWITCHES", "P_FOOTSTEP">>, leaf |-> "GROUP", lit |-> <<3, 8, 0, 6, 4, 9, 1, 9, 6, 4>>],
       [path |-> <<"SWITCHES", "P_FOOTSTEP", "SWITCH">>, leaf |-> "DIRT", lit |-> <<2, 1, 9, 5, 6, 3, 6, 7, 1, 4>>],
       [path |-> <<"SWITCHES", "P_FOOTSTEP", "SWITCH">>, leaf |-> "WOOD", lit |-> <<2, 0, 5, 8, 0, 4, 9, 6, 7, 4>>] >>

BANKS ==
    << [path |-> <<"BANKS">>, leaf |-> "INIT", lit |-> <<1, 3, 5, 5, 1, 6, 8, 2, 9, 1>>],
       [path |-> <<"BANKS">>, leaf |-> "MAIN", lit |-> <<3, 1, 6, 1, 9, 0, 8, 9, 2, 2>>] >>

BUSSES ==
    << [path |-> <<"BUSSES">>, leaf |-> "MASTER_AUDIO_BUS", lit |-> <<3, 8, 0, 3, 6, 9, 2, 0, 8, 7>>] >>

AUDIO_DEVICES ==
    << [path |-> <<"AUDIO_DEVICES">>, leaf |-> "NO_OUTPUT", lit |-> <<2, 3, 1, 7, 4, 5, 5, 0, 9, 6>>],
       [path |-> <<"AUDIO_DEVICES">>, leaf |-> "SYSTEM", lit |-> <<3, 8, 5, 9, 8, 8, 6, 4, 1, 0>>] >>

(***************************************************************************)
(* Tables with one generation slip each, used to show that the properties  *)
(* below are decided by the declarations.                                  *)
(***************************************************************************)

\* A second bank that is declared under the name of the first one.
AK_DuplicateName ==
    EVENTS \o STATES \o SWITCHES
      \o << BANKS[1], [BANKS[2] EXCEPT !.leaf = BANKS[1].leaf] >>
      \o BUSSES \o AUDIO_DEVICES

\* The state group loses its GROUP declaration.
AK_MissingGroupId ==
    EVENTS \o Tail(STATES) \o SWITCHES \o BANKS \o BUSSES \o AUDIO_DEVICES

\* An initialiser one digit too long for 32 bits: 19009197160.
AK_WideLiteral ==
    << [EVENTS[1] EXCEPT !.lit = Append(EVENTS[1].lit, 0)] >> \o Tail(EVENTS)
      \o STATES \o SWITCHES \o BANKS \o BUSSES \o AUDIO_DEVICES

\* The bus is given the id of the first event.
AK_CrossCategoryCollision ==
    EVENTS \o STATES \o SWITCHES \o BANKS
      \o << [BUSSES[1] EXCEPT !.lit = EVENTS[1].lit] >>
      \o AUDIO_DEVICES

\* namespace AK: the whole table.
AK ==
    EVENTS \o STATES \o SWITCHES \o BANKS \o BUSSES \o AUDIO_DEVICES

Entries == 1..Len(AK)

(***************************************************************************)
(* Conversion of a decimal initialiser to AkUniqueID.  The literal has the *)
(* value its digits spell; initialising a 32-bit unsigned object with it   *)
(* keeps that value modulo 2^32.  wrapped records that the reduction       *)
(* changed the value.                                                      *)
(***************************************************************************)
ConvertStep(acc, d) ==
    LET lo2 == acc.lo * 10 + d
        hi2 == acc.hi * 10 + (lo2 \div Half)
    IN  [hi      |-> hi2 % Half,
         lo      |-> lo2 % Half,
         wrapped |-> acc.wrapped \/ hi2 >= Half]

RECURSIVE ConvertFrom(_, _, _)
ConvertFrom(lit, k, acc) ==
    IF k > Len(lit) THEN acc
    ELSE ConvertFrom(lit, k + 1, ConvertStep(acc, lit[k]))

Convert(lit) == ConvertFrom(lit, 1, [hi |-> 0, lo |-> 0, wrapped |-> FALSE])

AkUniqueID(lit) == << Convert(lit).hi, Convert(lit).lo >>

\* The object a declaration defines.
Object(e) == [path |-> e.path, leaf |-> e.leaf, id |-> AkUniqueID(e.lit)]

\* The objects of the program as constant initialisation leaves them.
Objects == [i \in Entries |-> Object(AK[i])]

(***************************************************************************)
(* The data model read off the namespaces: the top-level category, the     *)
(* category an entry belongs to and the name of the asset it stands for.   *)
(* A group's id is declared as <top>::<group>::GROUP, so the entry of a    *)
(* group is named by the group's namespace; the values of a group form a   *)
(* category of their own.                                                  *)
(***************************************************************************)
TopLevel(o) == o.path[1]

Grouped(o) == TopLevel(o) \in {"STATES", "SWITCHES"}

IsGroupId(o) == Grouped(o) /\ Len(o.path) = 2 /\ o.leaf = "GROUP"

IsGroupValue(o) == Grouped(o) /\ Len(o.path) = 3

ValueNamespace(top) == IF top = "STATES" THEN "STATE" ELSE "SWITCH"

Category(o) ==
    IF IsGroupId(o) THEN << TopLevel(o), "GROUP" >>
    ELSE o.path

Name(o) == IF IsGroupId(o) THEN o.path[2] ELSE o.leaf

VARIABLES
    mem,    \* the constant objects of the program, one per declaration
    pc,     \* where each thread is in its read
    ref,    \* the declaration a thread's expression names (0: none)
    res     \* the value a thread has read (<<>>: none)

vars == << mem, pc, ref, res >>

Init ==
    /\ mem = Objects
    /\ pc  = [t \in Threads |-> "idle"]
    /\ ref = [t \in Threads |-> 0]
    /\ res = [t \in Threads |-> <<>>]

\* A thread reaches an expression that names the constant declared i-th.
Begin(t, i) ==
    /\ pc[t] = "idle"
    /\ pc'  = [pc EXCEPT ![t] = "reading"]
    /\ ref' = [ref EXCEPT ![t] = i]
    /\ UNCHANGED << mem, res >>

\* A read that leaves its object zeroed.
Load_Clobbers(t) ==
    /\ pc[t] = "reading"
    /\ res' = [res EXCEPT ![t] = mem[ref[t]].id]
    /\ mem' = [mem EXCEPT ![ref[t]].id = << 0, 0 >>]
    /\ pc'  = [pc EXCEPT ![t] = "done"]
    /\ UNCHANGED ref

\* A read that waits until no other thread is reading.
Load_Exclusive(t) ==
    /\ pc[t] = "reading"
    /\ \A u \in Threads \ {t} : pc[u] # "reading"
    /\ res' = [res EXCEPT ![t] = mem[ref[t]].id]
    /\ pc'  = [pc EXCEPT ![t] = "done"]
    /\ UNCHANGED << mem, ref >>

\* The read itself: the value of the const object, nothing written.
Load(t) ==
    /\ pc[t] = "reading"
    /\ res' = [res EXCEPT ![t] = mem[ref[t]].id]
    /\ pc'  = [pc EXCEPT ![t] = "done"]
    /\ UNCHANGED << mem, ref >>

\* The thread has used the value and moves on.
Finish(t) ==
    /\ pc[t] = "done"
    /\ pc'  = [pc EXCEPT ![t] = "idle"]
    /\ ref' = [ref EXCEPT ![t] = 0]
    /\ res' = [res EXCEPT ![t] = <<>>]
    /\ UNCHANGED mem

Next ==
    \E t \in Threads :
        \/ \E i \in Entries : Begin(t, i)
        \/ Load(t)
        \/ Finish(t)

Spec == Init /\ [][Next]_vars

TypeOK ==
    /\ DOMAIN mem = Entries
    /\ pc  \in [Threads -> {"idle", "reading", "done"}]
    /\ ref \in [Threads -> 0..Len(AK)]
    /\ \A t \in Threads : (pc[t] = "idle") <=> (ref[t] = 0)
    /\ \A t \in Threads : (pc[t] = "done") <=> (res[t] # <<>>)

(***************************************************************************)
(* Properties of the table and of reading it.                              *)
(***************************************************************************)

\* The value the declaration of entry i gives its symbol.
Declared(i) == Objects[i].id

\* The entries whose initialiser does not fit 32 bits.
Wrapping == {i \in Entries : Convert(AK[i].lit).wrapped}

\* C1: within every category (the events, the values of each state group,
\* the values of each switch group, the state groups, the switch groups, the
\* banks, the busses, the audio devices) no two entries have the same name.
\* Stated as: the entries have as many distinct (category, name) pairs as
\* there are entries, i.e. no two entries agree on both.
C1_NameUniqueWithinCategory ==
    Cardinality({ << Category(mem[i]), Name(mem[i]) >> : i \in Entries })
        = Cardinality(DOMAIN mem)

\* A thread has read an entry whose category holds another entry too.
C1_Witness ==
    \E t \in Threads :
        /\ pc[t] = "done"
        /\ \E j \in Entries \ {ref[t]} :
               /\ Category(mem[j]) = Category(mem[ref[t]])
               /\ Name(mem[j]) # Name(mem[ref[t]])

\* C2: the table has exactly the six top-level categories EVENTS, STATES,
\* SWITCHES, BANKS, BUSSES and AUDIO_DEVICES, every entry lies in exactly one
\* of them, entries outside STATES and SWITCHES lie directly in their
\* category, and under STATES and SWITCHES every entry is either the GROUP id
\* of a group or a value in the STATE / SWITCH namespace of exactly one
\* group, every group having exactly one GROUP id.
C2_CategoryShape ==
    LET Tops == {"EVENTS", "STATES", "SWITCHES", "BANKS", "BUSSES",
                 "AUDIO_DEVICES"}
        GroupIds(o) == {j \in Entries : /\ IsGroupId(mem[j])
                                        /\ mem[j].path[1] = o.path[1]
                                        /\ mem[j].path[2] = o.path[2]}
    IN  /\ {TopLevel(mem[i]) : i \in Entries} = Tops
        /\ \A i \in Entries :
             LET o == mem[i]
             IN  /\ Len(o.path) >= 1
                 /\ Cardinality({c \in Tops : c = TopLevel(o)}) = 1
                 /\ ~Grouped(o) => Len(o.path) = 1
                 /\ Grouped(o) =>
                      /\ \/ IsGroupId(o)
                         \/ /\ IsGroupValue(o)
                            /\ o.path[3] = ValueNamespace(TopLevel(o))
                      /\ Cardinality(GroupIds(o)) = 1

\* One thread has read a value of a group while another has read the GROUP
\* id of that same group.
C2_Witness ==
    \E t, u \in Threads :
        /\ pc[t] = "done" /\ pc[u] = "done"
        /\ IsGroupValue(mem[ref[t]])
        /\ IsGroupId(mem[ref[u]])
        /\ mem[ref[u]].path[2] = mem[ref[t]].path[2]

\* C3: every symbol's value is a 32-bit unsigned integer: the initialiser of
\* no entry is changed by the reduction modulo 2^32, the object holds the
\* initialiser's value, and each 16-bit half of it lies in 0 .. 2^16 - 1.
C3_IdsFitUInt32 ==
    \A i \in Entries :
        /\ i \notin Wrapping
        /\ mem[i].id = Declared(i)
        /\ mem[i].id[1] \in 0..(Half - 1)
        /\ mem[i].id[2] \in 0..(Half - 1)

\* A thread has read a value above 2^31 - 1, which needs the unsigned range.
C3_Witness ==
    \E t \in Threads : pc[t] = "done" /\ res[t][1] >= Half \div 2

C10_IdsPairwiseDistinct ==
    /\ Cardinality(DOMAIN mem) = 25
    /\ Cardinality({ mem[i].id : i \in Entries }) = 25

\* Two threads have read entries of different top-level categories and hold
\* different values.
C10_Witness ==
    \E t, u \in Threads :
        /\ pc[t] = "done" /\ pc[u] = "done"
        /\ TopLevel(mem[ref[t]]) # TopLevel(mem[ref[u]])
        /\ res[t] # res[u]

====
